---- MODULE Spec2Model ----
(***************************************************************************)
(* Model of decorum's `Expression` (src/src/expression.rs): the two-variant *)
(* Defined/Undefined value, its combinators and conversions, and the        *)
(* operator matrix over raw primitives, `Constrained` values and            *)
(* expressions.                                                             *)
(*                                                                          *)
(* Floating-point primitives are modelled on a small grid: the finite       *)
(* values are the integers -MaxFinite..MaxFinite, results are rounded       *)
(* toward zero onto the grid and overflow to an infinity, and NaN and the   *)
(* two infinities are separate values.  The sign of zero is not modelled.   *)
(***************************************************************************)
EXTENDS Integers, Sequences, FiniteSets

\* Largest finite magnitude of the primitive grid.
MaxFinite == 3

Finite == (0 - MaxFinite)..MaxFinite
PosInf == MaxFinite + 1
NegInf == 0 - PosInf
NaN == MaxFinite + 2
Primitive == Finite \cup {PosInf, NegInf, NaN}

IsNan(a) == a = NaN
IsInf(a) == a = PosInf \/ a = NegInf
IsFinite(a) == a \in Finite

Abs(n) == IF n < 0 THEN 0 - n ELSE n
Sgn(n) == IF n < 0 THEN 0 - 1 ELSE IF n > 0 THEN 1 ELSE 0

\* Rounding of an exact integer result onto the grid: overflow gives an infinity.
Saturate(n) == IF n > MaxFinite THEN PosInf ELSE IF n < 0 - MaxFinite THEN NegInf ELSE n

\* Sign of a grid value as +1 / -1, zero counting as positive (0.0).
SignOf(a) == IF a < 0 THEN 0 - 1 ELSE 1

InfOf(s) == IF s < 0 THEN NegInf ELSE PosInf

RECURSIVE IntPow(_, _)
IntPow(b, n) == IF n = 0 THEN 1 ELSE b * IntPow(b, n - 1)

\* Largest r with r^k <= n, for n >= 0.
IRoot(n, k) == CHOOSE r \in 0..n : IntPow(r, k) <= n /\ IntPow(r + 1, k) > n

(***************************************************************************)
(* Primitive (IEEE 754) arithmetic on the grid.                            *)
(***************************************************************************)
PrimNeg(a) == IF IsNan(a) THEN NaN ELSE 0 - a

PrimAdd(a, b) ==
    IF IsNan(a) \/ IsNan(b) THEN NaN
    ELSE IF IsInf(a) /\ IsInf(b) THEN (IF a = b THEN a ELSE NaN)
    ELSE IF IsInf(a) THEN a
    ELSE IF IsInf(b) THEN b
    ELSE Saturate(a + b)

PrimSub(a, b) == PrimAdd(a, PrimNeg(b))

PrimMul(a, b) ==
    IF IsNan(a) \/ IsNan(b) THEN NaN
    ELSE IF IsInf(a) \/ IsInf(b)
         THEN (IF a = 0 \/ b = 0 THEN NaN ELSE InfOf(SignOf(a) * SignOf(b)))
    ELSE Saturate(a * b)

PrimDiv(a, b) ==
    IF IsNan(a) \/ IsNan(b) THEN NaN
    ELSE IF IsInf(a) THEN (IF IsInf(b) THEN NaN ELSE InfOf(SignOf(a) * SignOf(b)))
    ELSE IF IsInf(b) THEN 0
    ELSE IF b = 0 THEN (IF a = 0 THEN NaN ELSE InfOf(SignOf(a)))
    ELSE Sgn(a) * Sgn(b) * (Abs(a) \div Abs(b))

PrimRem(a, b) ==
    IF IsNan(a) \/ IsNan(b) \/ IsInf(a) \/ b = 0 THEN NaN
    ELSE IF IsInf(b) THEN a
    ELSE Sgn(a) * (Abs(a) % Abs(b))

\* f64::rem_euclid: r = a % b, plus |b| when r is negative.
PrimRemEuclid(a, b) ==
    LET r == PrimRem(a, b)
    IN  IF IsNan(r) THEN NaN
        ELSE IF r < 0 THEN (IF IsInf(b) THEN PosInf ELSE r + Abs(b))
        ELSE r

\* f64::div_euclid: q = trunc(a / b), corrected by one when a % b is negative.
PrimDivEuclid(a, b) ==
    IF IsNan(a) \/ IsNan(b) THEN NaN
    ELSE IF IsInf(a) \/ b = 0 THEN PrimDiv(a, b)
    ELSE LET q == PrimDiv(a, b)
             r == PrimRem(a, b)
         IN  IF r < 0 THEN (IF b > 0 THEN Saturate(q - 1) ELSE Saturate(q + 1)) ELSE q

PrimPow(a, n) ==
    IF n = 0 \/ a = 1 THEN 1
    ELSE IF IsNan(a) \/ IsNan(n) THEN NaN
    ELSE IF n = PosInf
         THEN (IF a = 0 THEN 0 ELSE IF a = 0 - 1 THEN 1 ELSE PosInf)
    ELSE IF n = NegInf
         THEN (IF a = 0 THEN PosInf ELSE IF a = 0 - 1 THEN 1 ELSE 0)
    ELSE IF a = PosInf THEN (IF n > 0 THEN PosInf ELSE 0)
    ELSE IF a = NegInf
         THEN (IF n < 0 THEN 0 ELSE IF n % 2 = 1 THEN NegInf ELSE PosInf)
    ELSE IF n > 0 THEN Saturate(IntPow(a, n))
    ELSE IF a = 0 THEN PosInf
    ELSE IF a = 0 - 1 THEN (IF n % 2 = 1 THEN 0 - 1 ELSE 1)
    ELSE 0

\* log(a, base) = ln(a) / ln(base), the quotient rounded toward zero.
PrimLog(a, base) ==
    IF IsNan(a) \/ IsNan(base) \/ a < 0 \/ base < 0 THEN NaN
    ELSE IF a = 0
         THEN (IF base = 0 \/ base = PosInf THEN NaN
               ELSE NegInf)
    ELSE IF a = PosInf
         THEN (IF base = 0 \/ base = PosInf THEN NaN ELSE PosInf)
    ELSE IF a = 1 THEN (IF base = 1 THEN NaN ELSE 0)
    ELSE IF base = 1 THEN PosInf
    ELSE IF base = 0 \/ base = PosInf THEN 0
    ELSE CHOOSE k \in 0..a : IntPow(base, k) <= a /\ IntPow(base, k + 1) > a

PrimHypot(a, b) ==
    IF IsInf(a) \/ IsInf(b) THEN PosInf
    ELSE IF IsNan(a) \/ IsNan(b) THEN NaN
    ELSE Saturate(IRoot(a * a + b * b, 2))

\* atan2(y, x) in (-pi, pi], rounded toward zero.  The angle t of (x, y) with
\* y >= 0 is at least k radians iff y*cos(k) - x*sin(k) >= 0 (k = 1, 2, 3).
AngleFloor(y, x) ==
    IF y = 0 /\ x >= 0 THEN 0
    ELSE IF (0 - 9900) * y - 1411 * x >= 0 THEN 3
    ELSE IF (0 - 4161) * y - 9093 * x >= 0 THEN 2
    ELSE IF 5403 * y - 8415 * x >= 0 THEN 1
    ELSE 0

\* An infinite coordinate dominates a finite one; two infinite ones are equal.
Direction(a, other) ==
    IF IsInf(a) THEN SignOf(a) ELSE IF IsInf(other) THEN 0 ELSE a

PrimAtan2(y, x) ==
    IF IsNan(y) \/ IsNan(x) THEN NaN
    ELSE LET dy == Direction(y, x)
             dx == Direction(x, y)
         IN  SignOf(dy) * AngleFloor(Abs(dy), dx)

PrimAbs(a) == IF IsNan(a) THEN NaN ELSE Abs(a)

\* Every grid value is already an integer.
PrimFloor(a) == a

PrimFract(a) == IF IsNan(a) \/ IsInf(a) THEN NaN ELSE 0

PrimCbrt(a) ==
    IF IsNan(a) \/ IsInf(a) THEN a ELSE Sgn(a) * IRoot(Abs(a), 3)

\* |sin n| < 1 for every finite n, so it rounds to zero.
PrimSin(a) == IF IsNan(a) \/ IsInf(a) THEN NaN ELSE 0

PrimCos(a) == IF IsNan(a) \/ IsInf(a) THEN NaN ELSE IF a = 0 THEN 1 ELSE 0

\* trunc(sinh n) = 0, 1, 3, 10 for n = 0..3, and at least 27 from n = 4 on.
SinhMagnitude(n) ==
    CASE n = 0 -> 0
      [] n = 1 -> 1
      [] n = 2 -> 3
      [] n = 3 -> 10
      [] OTHER -> 27 + n

PrimSinh(a) ==
    IF IsNan(a) \/ IsInf(a) THEN a ELSE Saturate(Sgn(a) * SinhMagnitude(Abs(a)))

\* atan(1) = 0.78.., atan(2) = 1.10.., atan(inf) = 1.57..
PrimAtan(a) ==
    IF IsNan(a) THEN NaN
    ELSE IF Abs(a) >= 2 THEN SignOf(a) ELSE 0

PrimRecip(a) == PrimDiv(1, a)

PrimSqrt(a) ==
    IF IsNan(a) \/ a < 0 THEN NaN
    ELSE IF a = PosInf THEN PosInf
    ELSE IRoot(a, 2)

PrimPowi(a, n) == PrimPow(a, n)

\* The functions of UnaryRealFunction and the operators that are modelled; the
\* remaining functions of the trait are forwarded in one of the same two ways.
ArithmeticOps == {"add", "sub", "mul", "div", "rem"}
BinaryRealFns == {"div_euclid", "rem_euclid", "pow", "log", "hypot", "atan2"}
MappedFns == {"abs", "floor", "fract", "cbrt", "sin", "cos", "sinh", "atan"}
ChainedFns == {"recip", "sqrt"}
PowiExponents == {0 - 1, 2}

PrimBinary(o, a, b) ==
    CASE o = "add" -> PrimAdd(a, b)
      [] o = "sub" -> PrimSub(a, b)
      [] o = "mul" -> PrimMul(a, b)
      [] o = "div" -> PrimDiv(a, b)
      [] o = "rem" -> PrimRem(a, b)
      [] o = "div_euclid" -> PrimDivEuclid(a, b)
      [] o = "rem_euclid" -> PrimRemEuclid(a, b)
      [] o = "pow" -> PrimPow(a, b)
      [] o = "log" -> PrimLog(a, b)
      [] o = "hypot" -> PrimHypot(a, b)
      [] o = "atan2" -> PrimAtan2(a, b)

PrimUnary(f, a) ==
    CASE f = "abs" -> PrimAbs(a)
      [] f = "floor" -> PrimFloor(a)
      [] f = "fract" -> PrimFract(a)
      [] f = "cbrt" -> PrimCbrt(a)
      [] f = "sin" -> PrimSin(a)
      [] f = "cos" -> PrimCos(a)
      [] f = "sinh" -> PrimSinh(a)
      [] f = "atan" -> PrimAtan(a)
      [] f = "recip" -> PrimRecip(a)
      [] f = "sqrt" -> PrimSqrt(a)

(***************************************************************************)
(* State.                                                                  *)
(***************************************************************************)
VARIABLES
    constraint,  \* the constraint C of Constrained<T, C>, fixed for the run
    pc,          \* the caller: "ready" to call, or an operation has "returned"
    x,           \* the running expression
    prev,        \* the running expression before the last operation
    op,          \* the last operation that produced x
    side,        \* the position the running expression had in it
    arg,         \* the other operand of the last operation
    arg2,        \* the third operand of a three-term sum
    pair,        \* the output of sin_cos on x
    result,      \* the output of Result::from(x)
    cmp,         \* the outputs of x == arg and x.partial_cmp(arg)
    outcome,     \* the same computation under the outcome (Result) policy
    leftValid,   \* no violating raw primitive was put left of an Undefined x
    calls,       \* the closure calls and validations the last operation made
    obs          \* the outputs of unwrap, try_from and the classifications of x

vars == <<constraint, pc, x, prev, op, side, arg, arg2, pair, result, cmp,
          outcome, leftValid, calls, obs>>

(***************************************************************************)
(* Constraints and their errors.                                           *)
(***************************************************************************)
Constraints == {"IsReal", "IsExtendedReal"}

\* IsReal admits the finite values, IsExtendedReal everything but NaN.
Satisfies(p) ==
    IF constraint = "IsReal" THEN IsFinite(p) ELSE ~IsNan(p)

\* The error of a violation captures the offending primitive.
ConstraintError(p) == p

ErrorFor == {NaN, PosInf, NegInf}

ValidPrimitive == {p \in Primitive : Satisfies(p)}

(***************************************************************************)
(* core::option::Option and core::result::Result.                          *)
(***************************************************************************)
None == <<>>
Some(v) == <<v>>

Option_zip(a, b) == IF a # None /\ b # None THEN Some(<<a[1], b[1]>>) ELSE None

Ok(v) == [tag |-> "Ok", v |-> v]
Err(e) == [tag |-> "Err", v |-> e]

(***************************************************************************)
(* Expression<T, E>.                                                       *)
(***************************************************************************)
Defined(v) == [tag |-> "Defined", v |-> v]
Undefined(e) == [tag |-> "Undefined", v |-> e]


\* What a call that may panic does: it returns a value, or it panics and
\* returns nothing.
Returns(v) == [panics |-> FALSE, value |-> Some(v)]
Panics == [panics |-> TRUE, value |-> None]

\* Variant: unwrap falls back on a default value instead of panicking.
unwrap_OrDefault(e) == IF e.tag = "Defined" THEN Returns(e.v) ELSE Returns(0)

unwrap(e) == IF e.tag = "Defined" THEN Returns(e.v) ELSE Panics

defined(e) == IF e.tag = "Defined" THEN Some(e.v) ELSE None

undefined(e) == IF e.tag = "Undefined" THEN Some(e.v) ELSE None

is_defined(e) == e.tag = "Defined"

is_undefined(e) == e.tag = "Undefined"

\* Variant: the variants are swapped.
ExpressionFromResult_Swapped(r) == IF r.tag = "Ok" THEN Undefined(r.v) ELSE Defined(r.v)

\* From<Result<T, E>> for Expression<T, E>
ExpressionFromResult(r) == IF r.tag = "Ok" THEN Defined(r.v) ELSE Undefined(r.v)

\* From<Expression<T, E>> for Result<T, E>
ResultFromExpression(e) == IF e.tag = "Defined" THEN Ok(e.v) ELSE Err(e.v)

\* try_expression!: the error is converted by From, here from the error type
\* to itself (the reflexive From impl), and returned in an Undefined.
ErrorFrom(e) == e
TryReturns(e) == e.tag = "Undefined"
\* Variant: the empty inhabitant of the error type is returned, not the error.
TryReturn_Empty(e) == Undefined(NaN)
TryReturn(e) == Undefined(ErrorFrom(e.v))
TryInner(e) == e.v

(***************************************************************************)
(* Constrained<T, C>: a validated primitive, represented by the primitive. *)
(***************************************************************************)
Constrained_try_new(p) == IF Satisfies(p) THEN Ok(p) ELSE Err(ConstraintError(p))

\* Constrained::new under a divergence that continues as an Expression.
Constrained_new(p) == ExpressionFromResult(Constrained_try_new(p))

\* Constrained::zip_map: the primitive operation, then construction anew.
Constrained_zip_map(left, right, o) == Constrained_new(PrimBinary(o, left, right))

\* Functions of Constrained with output Self::Codomain validate their result.
Constrained_checked(f, v) == Constrained_new(PrimUnary(f, v))

Constrained_powi(v, n) == Constrained_new(PrimPowi(v, n))

\* Functions of Constrained with output Self have no way to report an error.
Constrained_unchecked(f, v) == PrimUnary(f, v)

Constrained_neg(v) == PrimNeg(v)

Constrained_sin_cos(v) == <<PrimSin(v), PrimCos(v)>>

\* What a closure given to map (output Constrained) or to and_then (output
\* Expression) returns for the inner value d.
CallSelf(f, d) ==
    IF f.name = "neg" THEN Constrained_neg(d) ELSE Constrained_unchecked(f.name, d)

CallCodomain(f, d) ==
    IF f.name = "powi" THEN Constrained_powi(d, f.n) ELSE Constrained_checked(f.name, d)

\* The closures given to map and and_then: a function of Constrained, by name,
\* with the exponent that powi captures.
Fn(name) == [name |-> name, n |-> 0]
FnPowi(n) == [name |-> "powi", n |-> n]

map(e, f) == IF e.tag = "Defined" THEN Defined(CallSelf(f, e.v)) ELSE Undefined(e.v)

\* Variant: the Undefined arm builds a fresh (empty) error instead of passing
\* its own on.
and_then_Empty(e, f) == IF e.tag = "Defined" THEN CallCodomain(f, e.v) ELSE Undefined(NaN)

and_then(e, f) == IF e.tag = "Defined" THEN CallCodomain(f, e.v) ELSE Undefined(e.v)

Constrained_partial_cmp(a, b) ==
    IF IsNan(a) \/ IsNan(b) THEN None
    ELSE IF a < b THEN Some("Less")
    ELSE IF a > b THEN Some("Greater")
    ELSE Some("Equal")

Constrained_eq(a, b) == Constrained_partial_cmp(a, b) = Some("Equal")

\* The classifications of Constrained are those of the primitive it holds.
Constrained_is_zero(v) == v = 0

Constrained_is_one(v) == v = 1

Constrained_sign(v) ==
    IF IsNan(v) \/ v = 0 THEN "Zero" ELSE IF v < 0 THEN "Negative" ELSE "Positive"

Constrained_is_infinite(v) == IsInf(v)

Constrained_is_finite(v) == IsFinite(v)

(***************************************************************************)
(* Conversions into Expression, Neg, comparison, UnaryRealFunction.        *)
(***************************************************************************)
\* Variant: the primitive is wrapped without validation.
ExpressionFromPrimitive_Unchecked(inner) == Defined(inner)

\* From<T> for Expression<Constrained<T, C>, ErrorFor<Constrained<T, C>>>
ExpressionFromPrimitive(inner) == ExpressionFromResult(Constrained_try_new(inner))

\* From<Constrained<T, C>> for Expression<Constrained<T, C>, ...>
ExpressionFromConstrained(proxy) == Defined(proxy)

\* From<Constrained<T, C>> for T: the primitive a Constrained holds.
Constrained_into_inner(c) == c

\* TryFrom<Expression<Constrained<$t, C>, C::Error>> for Constrained<$t, C>
ConstrainedTryFromExpression(expression) ==
    IF expression.tag = "Defined" THEN Ok(expression.v) ELSE Err(expression.v)

\* TryFrom<Expression<Constrained<$t, C>, C::Error>> for $t
PrimitiveTryFromExpression(expression) ==
    IF expression.tag = "Defined" THEN Ok(Constrained_into_inner(expression.v))
    ELSE Err(expression.v)

\* Constrained<T, C>: InfinityEncoding, the bound of the impl for expressions:
\* INFINITY is a value of Constrained.
HasInfinityEncoding == Satisfies(PosInf) /\ Satisfies(NegInf)

\* InfinityEncoding::is_infinite: self.defined().is_some_and(is_infinite)
is_infinite(self) ==
    LET d == defined(self) IN d # None /\ Constrained_is_infinite(d[1])

\* Variant: finite is taken to be the negation of infinite.
is_finite_NotInfinite(self) == ~is_infinite(self)

\* InfinityEncoding::is_finite: self.defined().is_some_and(is_finite)
is_finite(self) ==
    LET d == defined(self) IN d # None /\ Constrained_is_finite(d[1])

ZERO == Defined(0)

\* UnaryRealFunction::is_zero: self.defined().is_some_and(is_zero)
is_zero(self) ==
    LET d == defined(self) IN d # None /\ Constrained_is_zero(d[1])

\* UnaryRealFunction::is_one: self.defined().is_some_and(is_one)
is_one(self) ==
    LET d == defined(self) IN d # None /\ Constrained_is_one(d[1])

\* UnaryRealFunction::sign: self.defined().map_or(Sign::Zero, sign)
sign(self) ==
    LET d == defined(self) IN IF d = None THEN "Zero" ELSE Constrained_sign(d[1])

neg(self) == map(self, Fn("neg"))

\* Variant: the equality a derived PartialEq would give.
eq_Derived(self, other) == self = other

\* zip(...).is_some_and(|(left, right)| left.eq(right))
eq(self, other) ==
    LET zip == Option_zip(defined(self), defined(other))
    IN  zip # None /\ Constrained_eq(zip[1][1], zip[1][2])

\* zip(...).and_then(|(left, right)| left.partial_cmp(right))
partial_cmp(self, other) ==
    LET zip == Option_zip(defined(self), defined(other))
    IN  IF zip = None THEN None ELSE Constrained_partial_cmp(zip[1][1], zip[1][2])

abs(self) == map(self, Fn("abs"))
floor(self) == map(self, Fn("floor"))
fract(self) == map(self, Fn("fract"))
cbrt(self) == map(self, Fn("cbrt"))
sin(self) == map(self, Fn("sin"))
cos(self) == map(self, Fn("cos"))
sinh(self) == map(self, Fn("sinh"))
atan(self) == map(self, Fn("atan"))

recip(self) == and_then(self, Fn("recip"))
sqrt(self) == and_then(self, Fn("sqrt"))
powi(self, n) == and_then(self, FnPowi(n))

\* Variant: only the first slot receives the error, the second the empty one.
sin_cos_Single(self) ==
    IF self.tag = "Defined"
    THEN LET sc == Constrained_sin_cos(self.v)
         IN  <<Defined(sc[1]), Defined(sc[2])>>
    ELSE <<Undefined(self.v), Undefined(NaN)>>

sin_cos(self) ==
    IF self.tag = "Defined"
    THEN LET sc == Constrained_sin_cos(self.v)
         IN  <<Defined(sc[1]), Defined(sc[2])>>
    ELSE <<Undefined(self.v), Undefined(self.v)>>

UnaryFn(f, self) ==
    CASE f = "abs" -> abs(self)
      [] f = "floor" -> floor(self)
      [] f = "fract" -> fract(self)
      [] f = "cbrt" -> cbrt(self)
      [] f = "sin" -> sin(self)
      [] f = "cos" -> cos(self)
      [] f = "sinh" -> sinh(self)
      [] f = "atan" -> atan(self)
      [] f = "recip" -> recip(self)
      [] f = "sqrt" -> sqrt(self)

(***************************************************************************)
(* The operator matrix (impl_binary_operation_for_expression): each impl   *)
(* tries its operands left to right and then calls zip_map.                *)
(***************************************************************************)
\* Variant: the expression is tried before the raw operand is validated.
PrimitiveOpExpression_OtherFirst(o, self, other) ==
    IF TryReturns(other) THEN TryReturn(other)
    ELSE LET new == Constrained_new(self)
         IN  IF TryReturns(new) THEN TryReturn(new)
             ELSE Constrained_zip_map(TryInner(new), TryInner(other), o)

\* impl $trait<ExpressionFor<Constrained<$t, C>>> for $t
PrimitiveOpExpression(o, self, other) ==
    LET new == Constrained_new(self)
    IN  IF TryReturns(new) THEN TryReturn(new)
        ELSE IF TryReturns(other) THEN TryReturn(other)
        ELSE Constrained_zip_map(TryInner(new), TryInner(other), o)

\* impl $trait<ExpressionFor<Self>> for Constrained<T, C>
ConstrainedOpExpression(o, self, other) ==
    IF TryReturns(other) THEN TryReturn(other)
    ELSE Constrained_zip_map(self, TryInner(other), o)

\* Variant: the operands reach zip_map in the wrong order.
ExpressionOpConstrained_Swapped(o, self, other) ==
    IF TryReturns(self) THEN TryReturn(self)
    ELSE Constrained_zip_map(other, TryInner(self), o)

\* impl $trait<Constrained<T, C>> for ExpressionFor<Constrained<T, C>>
ExpressionOpConstrained(o, self, other) ==
    IF TryReturns(self) THEN TryReturn(self)
    ELSE Constrained_zip_map(TryInner(self), other, o)

\* Variant: the right operand is tried before the left one.
ExpressionOpExpression_OtherFirst(o, self, other) ==
    IF TryReturns(other) THEN TryReturn(other)
    ELSE IF TryReturns(self) THEN TryReturn(self)
    ELSE Constrained_zip_map(TryInner(self), TryInner(other), o)

\* impl $trait<ExpressionFor<Constrained<T, C>>> for ExpressionFor<Constrained<T, C>>
ExpressionOpExpression(o, self, other) ==
    IF TryReturns(self) THEN TryReturn(self)
    ELSE IF TryReturns(other) THEN TryReturn(other)
    ELSE Constrained_zip_map(TryInner(self), TryInner(other), o)

\* Variant: the raw operand is validated before the expression is tried.
ExpressionOpPrimitive_NewFirst(o, self, other) ==
    LET new == Constrained_new(other)
    IN  IF TryReturns(new) THEN TryReturn(new)
        ELSE IF TryReturns(self) THEN TryReturn(self)
        ELSE Constrained_zip_map(TryInner(self), TryInner(new), o)

\* impl $trait<T> for ExpressionFor<Constrained<T, C>>
ExpressionOpPrimitive(o, self, other) ==
    IF TryReturns(self) THEN TryReturn(self)
    ELSE LET new == Constrained_new(other)
         IN  IF TryReturns(new) THEN TryReturn(new)
             ELSE Constrained_zip_map(TryInner(self), TryInner(new), o)

(***************************************************************************)
(* BinaryRealFunction for expressions: the arguments of the call to the    *)
(* function of Constrained are tried left to right.                        *)
(***************************************************************************)
\* impl BinaryRealFunction for ExpressionFor<Constrained<T, C>>
ExpressionFnExpression(f, self, n) ==
    IF TryReturns(self) THEN TryReturn(self)
    ELSE IF TryReturns(n) THEN TryReturn(n)
    ELSE Constrained_zip_map(TryInner(self), TryInner(n), f)

\* Variant: the raw argument is validated before the expression is tried.
ExpressionFnPrimitive_NewFirst(f, self, n) ==
    LET new == Constrained_new(n)
    IN  IF TryReturns(new) THEN TryReturn(new)
        ELSE IF TryReturns(self) THEN TryReturn(self)
        ELSE Constrained_zip_map(TryInner(self), TryInner(new), f)

\* impl BinaryRealFunction<T> for ExpressionFor<Constrained<T, C>>
ExpressionFnPrimitive(f, self, n) ==
    IF TryReturns(self) THEN TryReturn(self)
    ELSE LET new == Constrained_new(n)
         IN  IF TryReturns(new) THEN TryReturn(new)
             ELSE Constrained_zip_map(TryInner(self), TryInner(new), f)

\* impl BinaryRealFunction<Constrained<T, C>> for ExpressionFor<Constrained<T, C>>
ExpressionFnConstrained(f, self, n) ==
    IF TryReturns(self) THEN TryReturn(self)
    ELSE Constrained_zip_map(TryInner(self), n, f)

\* impl BinaryRealFunction<ExpressionFor<Constrained<T, C>>> for Constrained<T, C>
ConstrainedFnExpression(f, self, n) ==
    IF TryReturns(n) THEN TryReturn(n)
    ELSE Constrained_zip_map(self, TryInner(n), f)

(***************************************************************************)
(* The calls an operation makes on what it is handed: the closure that map *)
(* and and_then receive, and the validation of a raw primitive.            *)
(***************************************************************************)
Invoked(f, d) == [f |-> f, d |-> d]
NoCalls == <<>>

\* map calls f in its Defined arm only.
map_calls(e, f) ==
    IF e.tag = "Defined" THEN <<Invoked(f.name, e.v)>> ELSE NoCalls

\* and_then calls f in its Defined arm only.
and_then_calls(e, f) ==
    IF e.tag = "Defined" THEN <<Invoked(f.name, e.v)>> ELSE NoCalls

\* The functions of UnaryRealFunction hand their closure to map or and_then.
UnaryCalls(f, self) ==
    IF f \in MappedFns THEN map_calls(self, Fn(f)) ELSE and_then_calls(self, Fn(f))

\* p o x: Constrained::new(self) is the first statement.
PrimitiveOpExpression_calls(self, other) == <<Invoked("new", self)>>

\* x o p: Constrained::new(other) is reached only if try_expression!(self)
\* did not return.
ExpressionOpPrimitive_calls(self, other) ==
    IF TryReturns(self) THEN NoCalls ELSE <<Invoked("new", other)>>

\* x.f(p): the arguments are evaluated left to right.
ExpressionFnPrimitive_calls(self, n) ==
    IF TryReturns(self) THEN NoCalls ELSE <<Invoked("new", n)>>

(***************************************************************************)
(* Operands of a step, and the operator matrix seen from one of them.      *)
(***************************************************************************)
Operand(k, t, v) == [kind |-> k, tag |-> t, v |-> v]
NoOperand == Operand("none", "-", 0)
PrimitiveOperand(p) == Operand("primitive", "-", p)
ConstrainedOperand(c) == Operand("constrained", "-", c)
ExpressionOperand(e) == Operand("expression", e.tag, e.v)
ResultOperand(r) == Operand("result", r.tag, r.v)

\* The expression or the Result an operand holds.
AsExpression(a) == [tag |-> a.tag, v |-> a.v]

PrimitiveOperands == {PrimitiveOperand(p) : p \in Primitive}
ConstrainedOperands == {ConstrainedOperand(c) : c \in ValidPrimitive}
Expressions ==
    {Defined(c) : c \in ValidPrimitive} \cup {Undefined(e) : e \in ErrorFor}
ExpressionOperands == {ExpressionOperand(e) : e \in Expressions}
Results == {Ok(c) : c \in ValidPrimitive} \cup {Err(e) : e \in ErrorFor}

\* `l o r` for the operators, where r is an expression or l is one.
OpWithRight(o, l, r) ==
    CASE l.kind = "primitive" -> PrimitiveOpExpression(o, l.v, r)
      [] l.kind = "constrained" -> ConstrainedOpExpression(o, l.v, r)
      [] l.kind = "expression" -> ExpressionOpExpression(o, AsExpression(l), r)

OpWithLeft(o, l, r) ==
    CASE r.kind = "primitive" -> ExpressionOpPrimitive(o, l, r.v)
      [] r.kind = "constrained" -> ExpressionOpConstrained(o, l, r.v)
      [] r.kind = "expression" -> ExpressionOpExpression(o, l, AsExpression(r))

\* The calls of `l o r`, where r is an expression or l is one.
CallsWithRight(l, r) ==
    IF l.kind = "primitive" THEN PrimitiveOpExpression_calls(l.v, r) ELSE NoCalls

CallsWithLeft(l, r) ==
    IF r.kind = "primitive" THEN ExpressionOpPrimitive_calls(l, r.v) ELSE NoCalls

(***************************************************************************)
(* The outcome policy: the operators of Constrained output a Result, and   *)
(* the caller tries (?) every Result before it continues, so the function  *)
(* returns the first error in evaluation order.                            *)
(***************************************************************************)
OutcomeOperand(r) == Operand("expression", ExpressionFromResult(r).tag, r.v)

Failed(a) == a.kind = "expression" /\ a.tag = "Undefined"

Violates(a) == a.kind = "primitive" /\ ~Satisfies(a.v)

OutcomeBinary(o, l, r) ==
    IF Failed(l) THEN Err(l.v)
    ELSE IF Failed(r) THEN Err(r.v)
    ELSE IF Violates(l) THEN Err(ConstraintError(l.v))
    ELSE IF Violates(r) THEN Err(ConstraintError(r.v))
    ELSE Constrained_try_new(PrimBinary(o, l.v, r.v))

OutcomeUnary(f, r) ==
    IF r.tag = "Err" THEN r
    ELSE IF f \in MappedFns THEN Ok(Constrained_unchecked(f, r.v))
    ELSE Constrained_try_new(PrimUnary(f, r.v))

OutcomeNeg(r) == IF r.tag = "Err" THEN r ELSE Ok(Constrained_neg(r.v))

OutcomePowi(r, n) == IF r.tag = "Err" THEN r ELSE Constrained_try_new(PrimPowi(r.v, n))

(***************************************************************************)
(* Actions.                                                                *)
(***************************************************************************)
NoOutput == <<>>
Output(v) == <<v>>

\* A call that replaces the running expression by nx.
Return(nx, o, s, a, a2, out, lv) ==
    /\ pc' = "returned"
    /\ x' = nx
    /\ prev' = x
    /\ op' = o
    /\ side' = s
    /\ arg' = a
    /\ arg2' = a2
    /\ pair' = NoOutput
    /\ result' = NoOutput
    /\ cmp' = NoOutput
    /\ obs' = NoOutput
    /\ outcome' = out
    /\ leftValid' = lv
    /\ UNCHANGED constraint

\* A violating raw primitive is the left operand of an Undefined expression.
Overrides(l, r) == Violates(l) /\ is_undefined(r)

Init ==
    /\ constraint \in Constraints
    /\ pc = "ready"
    /\ x = ZERO
    /\ prev = ZERO
    /\ op = "ZERO"
    /\ side = "-"
    /\ arg = NoOperand
    /\ arg2 = NoOperand
    /\ pair = NoOutput
    /\ result = NoOutput
    /\ cmp = NoOutput
    /\ outcome = Ok(0)
    /\ leftValid = TRUE
    /\ calls = NoCalls
    /\ obs = NoOutput

FromPrimitive ==
    /\ pc = "ready"
    /\ \E p \in Primitive :
        Return(ExpressionFromPrimitive(p), "from_primitive", "-",
                PrimitiveOperand(p), NoOperand, Constrained_try_new(p), TRUE)
        /\ calls' = <<Invoked("try_new", p)>>

FromConstrained ==
    /\ pc = "ready"
    /\ \E c \in ValidPrimitive :
        Return(ExpressionFromConstrained(c), "from_constrained", "-",
                ConstrainedOperand(c), NoOperand, Ok(c), TRUE)
    /\ calls' = NoCalls

FromResult ==
    /\ pc = "ready"
    /\ \E r \in Results :
        Return(ExpressionFromResult(r), "from_result", "-",
                ResultOperand(r), NoOperand, r, TRUE)
    /\ calls' = NoCalls

\* Result::from(x), of a held expression or of one just made from a Result.
IntoResult ==
    /\ pc = "ready" \/ op = "from_result"
    /\ pc' = "returned"
    /\ result' = Output(ResultFromExpression(x))
    /\ op' = "into_result"
    /\ prev' = x
    /\ side' = IF pc = "ready" THEN "left" ELSE "back"
    /\ pair' = NoOutput
    /\ cmp' = NoOutput
    /\ calls' = NoCalls
    /\ obs' = NoOutput
    /\ UNCHANGED <<constraint, x, arg, arg2, outcome, leftValid>>

\* Expression::from of the Result that Result::from(x) just returned.
FromIntoResult ==
    /\ pc = "returned"
    /\ op = "into_result"
    /\ pc' = "returned"
    /\ x' = ExpressionFromResult(result[1])
    /\ op' = "from_result"
    /\ side' = "back"
    /\ arg' = ResultOperand(result[1])
    /\ result' = NoOutput
    /\ calls' = NoCalls
    /\ UNCHANGED <<constraint, prev, arg2, pair, cmp, obs, outcome, leftValid>>

\* The caller binds what the call returned (`let w = ...`) and goes on with it.
Bind ==
    /\ pc = "returned"
    /\ pc' = "ready"
    /\ prev' = x
    /\ op' = "bind"
    /\ side' = "-"
    /\ arg' = NoOperand
    /\ arg2' = NoOperand
    /\ pair' = NoOutput
    /\ result' = NoOutput
    /\ cmp' = NoOutput
    /\ calls' = NoCalls
    /\ obs' = NoOutput
    /\ UNCHANGED <<constraint, x, outcome, leftValid>>

Neg ==
    /\ pc = "ready"
    /\ Return(neg(x), "neg", "left", NoOperand, NoOperand, OutcomeNeg(outcome), leftValid)
    /\ calls' = map_calls(x, Fn("neg"))

Unary ==
    /\ pc = "ready"
    /\ \E f \in MappedFns \cup ChainedFns :
        Return(UnaryFn(f, x), f, "left", NoOperand, NoOperand,
                OutcomeUnary(f, outcome), leftValid)
        /\ calls' = UnaryCalls(f, x)

Powi ==
    /\ pc = "ready"
    /\ \E n \in PowiExponents :
        Return(powi(x, n), "powi", "left", PrimitiveOperand(n), NoOperand,
                OutcomePowi(outcome, n), leftValid)
        /\ calls' = and_then_calls(x, FnPowi(n))

\* Constrained::try_from(x) and $t::try_from(x), of a held expression or of
\* one just made from a primitive.
TryFromExpression ==
    /\ pc = "ready" \/ op = "from_primitive"
    /\ pc' = "returned"
    /\ obs' = Output([constrained |-> ConstrainedTryFromExpression(x),
                      primitive |-> PrimitiveTryFromExpression(x)])
    /\ prev' = x
    /\ op' = "try_from"
    /\ side' = IF pc = "ready" THEN "left" ELSE "back"
    /\ pair' = NoOutput
    /\ result' = NoOutput
    /\ cmp' = NoOutput
    /\ calls' = NoCalls
    /\ UNCHANGED <<constraint, x, arg, arg2, outcome, leftValid>>

\* x.is_zero(), x.is_one() and x.sign().
Classify ==
    /\ pc = "ready"
    /\ pc' = "returned"
    /\ obs' = Output([is_zero |-> is_zero(x), is_one |-> is_one(x), sign |-> sign(x)])
    /\ prev' = x
    /\ op' = "classify"
    /\ side' = "left"
    /\ arg' = NoOperand
    /\ arg2' = NoOperand
    /\ pair' = NoOutput
    /\ result' = NoOutput
    /\ cmp' = NoOutput
    /\ calls' = NoCalls
    /\ UNCHANGED <<constraint, x, outcome, leftValid>>

\* x.is_infinite() and x.is_finite(), where the constraint encodes infinities.
ClassifyInfinity ==
    /\ pc = "ready"
    /\ HasInfinityEncoding
    /\ pc' = "returned"
    /\ obs' = Output([is_infinite |-> is_infinite(x), is_finite |-> is_finite(x)])
    /\ prev' = x
    /\ op' = "classify_infinity"
    /\ side' = "left"
    /\ arg' = NoOperand
    /\ arg2' = NoOperand
    /\ pair' = NoOutput
    /\ result' = NoOutput
    /\ cmp' = NoOutput
    /\ calls' = NoCalls
    /\ UNCHANGED <<constraint, x, outcome, leftValid>>

\* unwrap, defined, undefined, is_defined and is_undefined of (a copy of) x.
Extract ==
    /\ pc = "ready"
    /\ pc' = "returned"
    /\ obs' = Output([unwrap |-> unwrap(x),
                      defined |-> defined(x),
                      undefined |-> undefined(x),
                      is_defined |-> Returns(is_defined(x)),
                      is_undefined |-> Returns(is_undefined(x))])
    /\ prev' = x
    /\ op' = "extract"
    /\ side' = "left"
    /\ arg' = NoOperand
    /\ arg2' = NoOperand
    /\ pair' = NoOutput
    /\ result' = NoOutput
    /\ cmp' = NoOutput
    /\ calls' = NoCalls
    /\ UNCHANGED <<constraint, x, outcome, leftValid>>

SinCos ==
    /\ pc = "ready"
    /\ pc' = "returned"
    /\ pair' = Output(sin_cos(x))
    /\ prev' = x
    /\ op' = "sin_cos"
    /\ side' = "left"
    /\ arg' = NoOperand
    /\ arg2' = NoOperand
    /\ result' = NoOutput
    /\ cmp' = NoOutput
    /\ calls' = NoCalls
    /\ obs' = NoOutput
    /\ UNCHANGED <<constraint, x, outcome, leftValid>>

Compare ==
    \E y \in Expressions \cup {x} :
        /\ pc = "ready"
        /\ pc' = "returned"
        /\ cmp' = Output([eq |-> eq(x, y), ord |-> partial_cmp(x, y)])
        /\ prev' = x
        /\ op' = "compare"
        /\ side' = "left"
        /\ arg' = ExpressionOperand(y)
        /\ arg2' = NoOperand
        /\ pair' = NoOutput
        /\ result' = NoOutput
        /\ calls' = NoCalls
        /\ obs' = NoOutput
        /\ UNCHANGED <<constraint, x, outcome, leftValid>>

\* p o x
PrimitiveWithExpression ==
    /\ pc = "ready"
    /\ \E o \in ArithmeticOps, p \in Primitive :
        Return(PrimitiveOpExpression(o, p, x), o, "right",
                PrimitiveOperand(p), NoOperand,
                OutcomeBinary(o, PrimitiveOperand(p), OutcomeOperand(outcome)),
                leftValid /\ ~Overrides(PrimitiveOperand(p), x))
        /\ calls' = PrimitiveOpExpression_calls(p, x)

\* c o x
ConstrainedWithExpression ==
    /\ pc = "ready"
    /\ \E o \in ArithmeticOps, c \in ValidPrimitive :
        Return(ConstrainedOpExpression(o, c, x), o, "right",
                ConstrainedOperand(c), NoOperand,
                OutcomeBinary(o, ConstrainedOperand(c), OutcomeOperand(outcome)),
                leftValid)
    /\ calls' = NoCalls

\* x o c
ExpressionWithConstrained ==
    /\ pc = "ready"
    /\ \E o \in ArithmeticOps, c \in ValidPrimitive :
        Return(ExpressionOpConstrained(o, x, c), o, "left",
                ConstrainedOperand(c), NoOperand,
                OutcomeBinary(o, OutcomeOperand(outcome), ConstrainedOperand(c)),
                leftValid)
    /\ calls' = NoCalls

\* x o y and y o x
ExpressionWithExpression ==
    /\ pc = "ready"
    /\ \E o \in ArithmeticOps, y \in Expressions :
        \/ Return(ExpressionOpExpression(o, x, y), o, "left",
                   ExpressionOperand(y), NoOperand,
                   OutcomeBinary(o, OutcomeOperand(outcome), ExpressionOperand(y)),
                   leftValid)
        \/ Return(ExpressionOpExpression(o, y, x), o, "right",
                   ExpressionOperand(y), NoOperand,
                   OutcomeBinary(o, ExpressionOperand(y), OutcomeOperand(outcome)),
                   leftValid)
    /\ calls' = NoCalls

\* x o p
ExpressionWithPrimitive ==
    /\ pc = "ready"
    /\ \E o \in ArithmeticOps, p \in Primitive :
        Return(ExpressionOpPrimitive(o, x, p), o, "left",
                PrimitiveOperand(p), NoOperand,
                OutcomeBinary(o, OutcomeOperand(outcome), PrimitiveOperand(p)),
                leftValid)
        /\ calls' = ExpressionOpPrimitive_calls(x, p)

\* x.f(y) and y.f(x)
RealFnExpression ==
    /\ pc = "ready"
    /\ \E f \in BinaryRealFns, y \in Expressions :
        \/ Return(ExpressionFnExpression(f, x, y), f, "left",
                   ExpressionOperand(y), NoOperand,
                   OutcomeBinary(f, OutcomeOperand(outcome), ExpressionOperand(y)),
                   leftValid)
        \/ Return(ExpressionFnExpression(f, y, x), f, "right",
                   ExpressionOperand(y), NoOperand,
                   OutcomeBinary(f, ExpressionOperand(y), OutcomeOperand(outcome)),
                   leftValid)
    /\ calls' = NoCalls

\* x.f(p)
RealFnPrimitive ==
    /\ pc = "ready"
    /\ \E f \in BinaryRealFns, p \in Primitive :
        Return(ExpressionFnPrimitive(f, x, p), f, "left",
                PrimitiveOperand(p), NoOperand,
                OutcomeBinary(f, OutcomeOperand(outcome), PrimitiveOperand(p)),
                leftValid)
        /\ calls' = ExpressionFnPrimitive_calls(x, p)

\* x.f(c)
RealFnConstrained ==
    /\ pc = "ready"
    /\ \E f \in BinaryRealFns, c \in ValidPrimitive :
        Return(ExpressionFnConstrained(f, x, c), f, "left",
                ConstrainedOperand(c), NoOperand,
                OutcomeBinary(f, OutcomeOperand(outcome), ConstrainedOperand(c)),
                leftValid)
    /\ calls' = NoCalls

\* c.f(x)
ConstrainedRealFn ==
    /\ pc = "ready"
    /\ \E f \in BinaryRealFns, c \in ValidPrimitive :
        Return(ConstrainedFnExpression(f, c, x), f, "right",
                ConstrainedOperand(c), NoOperand,
                OutcomeBinary(f, ConstrainedOperand(c), OutcomeOperand(outcome)),
                leftValid)
    /\ calls' = NoCalls

\* (a + x) + c, as in `let w = (x + y + z)` with x the middle term.
Operands == PrimitiveOperands \cup ConstrainedOperands \cup ExpressionOperands

SumOfThree ==
    /\ pc = "ready"
    /\ \E a \in Operands, c \in Operands :
        Return(OpWithLeft("add", OpWithRight("add", a, x), c), "sum", "middle",
                a, c,
                LET first == OutcomeBinary("add", a, OutcomeOperand(outcome))
                IN  OutcomeBinary("add", OutcomeOperand(first), c),
                leftValid /\ ~Overrides(a, x))
        /\ calls' = CallsWithRight(a, x) \o CallsWithLeft(OpWithRight("add", a, x), c)

Next ==
    \/ FromPrimitive
    \/ FromConstrained
    \/ FromResult
    \/ IntoResult
    \/ FromIntoResult
    \/ Bind
    \/ Neg
    \/ Unary
    \/ Powi
    \/ TryFromExpression
    \/ Classify
    \/ ClassifyInfinity
    \/ Extract
    \/ SinCos
    \/ Compare
    \/ PrimitiveWithExpression
    \/ ConstrainedWithExpression
    \/ ExpressionWithConstrained
    \/ ExpressionWithExpression
    \/ ExpressionWithPrimitive
    \/ RealFnExpression
    \/ RealFnPrimitive
    \/ RealFnConstrained
    \/ ConstrainedRealFn
    \/ SumOfThree

Spec == Init /\ [][Next]_vars

(***************************************************************************)
(* Properties.                                                             *)
(***************************************************************************)
OperatorSteps ==
    ArithmeticOps \cup BinaryRealFns \cup MappedFns \cup ChainedFns \cup {"neg", "powi"}

Returned(o) == pc = "returned" /\ op = o

\* The operand carries an error of its own: an Undefined expression, or a raw
\* primitive that violates the constraint.
Fails(a) == Failed(a) \/ Violates(a)

\* The expression to the left and to the right of the last binary operator.
LeftOf == IF side = "left" THEN prev ELSE AsExpression(arg)
RightOf == IF side = "left" THEN AsExpression(arg) ELSE prev

\* C1 as claimed: an operator applied to Undefined(e), on either side and with
\* any other operand, returns Undefined(e).
C1_AnyOperand ==
    (pc = "returned" /\ op \in OperatorSteps /\ is_undefined(prev)) => x = prev

\* C1: an operator applied to Undefined(e) returns Undefined(e) when the
\* expression is the operand of a unary operator, the left operand of a binary
\* one, or the right operand of a left operand that carries no error of its own.
C1_Absorbing ==
    (/\ pc = "returned"
     /\ op \in OperatorSteps
     /\ is_undefined(prev)
     /\ side = "left" \/ ~Fails(arg))
    => x = prev

C1_Witness ==
    /\ pc = "returned"
    /\ op \in ArithmeticOps
    /\ is_undefined(prev)
    /\ side = "left"
    /\ Violates(arg)
    /\ arg.v # prev.v
    /\ x = prev

\* C2: a binary operator or binary real function of two Undefined expressions
\* returns Undefined with the error of the left one.
C2_LeftBias ==
    (/\ pc = "returned"
     /\ op \in ArithmeticOps \cup BinaryRealFns
     /\ arg.kind = "expression"
     /\ is_undefined(prev)
     /\ is_undefined(AsExpression(arg)))
    => x = Undefined(LeftOf.v)

C2_Witness ==
    /\ pc = "returned"
    /\ op \in BinaryRealFns
    /\ arg.kind = "expression"
    /\ side = "right"
    /\ is_undefined(prev)
    /\ is_undefined(AsExpression(arg))
    /\ arg.v # prev.v
    /\ x = Undefined(arg.v)

\* C3 as claimed: (a + b) + c with b = Undefined(E1) is Undefined(E1) for every
\* a and c.
C3_AnyOperands ==
    (Returned("sum") /\ is_undefined(prev)) => x = prev

\* C3: (a + b) + c with b = Undefined(E1) is Undefined(E1) for every c and for
\* every a that carries no error of its own (a validated value, a Defined
\* expression, or a raw primitive that satisfies the constraint).
C3_MiddleError ==
    (Returned("sum") /\ is_undefined(prev) /\ ~Fails(arg)) => x = prev

C3_Witness ==
    /\ Returned("sum")
    /\ is_undefined(prev)
    /\ arg.kind = "primitive"
    /\ ~Violates(arg)
    /\ Fails(arg2)
    /\ arg2.v # prev.v
    /\ x = prev

\* C4: a binary arithmetic operator of two operands that hold values returns
\* Defined of the primitive result when that satisfies the constraint, and
\* Undefined with the constraint's error for it otherwise.
C4_Revalidation ==
    (/\ pc = "returned"
     /\ op \in ArithmeticOps
     /\ is_defined(prev)
     /\ arg.kind = "constrained" \/ (arg.kind = "expression" /\ arg.tag = "Defined"))
    => LET p == PrimBinary(op, LeftOf.v, RightOf.v)
       IN  x = IF Satisfies(p) THEN Defined(p) ELSE Undefined(ConstraintError(p))

C4_Witness ==
    /\ pc = "returned"
    /\ op = "sub"
    /\ is_defined(prev)
    /\ Satisfies(prev.v)
    /\ arg.kind = "constrained"
    /\ arg.v # prev.v
    /\ is_undefined(x)

C8_SinCosBoth ==
    Returned("sin_cos") =>
        /\ is_undefined(x) => pair = Output(<<x, x>>)
        /\ is_defined(x) => is_defined(pair[1][1]) /\ is_defined(pair[1][2])

C8_Witness ==
    /\ Returned("sin_cos")
    /\ is_undefined(x)
    /\ pair = Output(<<x, x>>)

\* C9: the conversions map Defined(v) to Ok(v) and Undefined(e) to Err(e) and
\* back, and either round trip returns the value it started from.
C9_ConversionBijection ==
    /\ Returned("from_result") =>
           x = (IF arg.tag = "Ok" THEN Defined(arg.v) ELSE Undefined(arg.v))
    /\ Returned("into_result") =>
           result = Output(IF is_defined(x) THEN Ok(x.v) ELSE Err(x.v))
    /\ (Returned("from_result") /\ side = "back") => x = prev
    /\ (Returned("into_result") /\ side = "back") => result = Output(AsExpression(arg))

C9_Witness ==
    /\ Returned("from_result")
    /\ side = "back"
    /\ is_undefined(prev)
    /\ x = prev

\* C10: x == y exactly when both are Defined with equal inner values, and
\* partial_cmp gives an ordering exactly when both are Defined with comparable
\* inner values; with an Undefined operand they give false and none.
C10_Comparison ==
    Returned("compare") =>
        LET y == AsExpression(arg)
            both == is_defined(x) /\ is_defined(y)
        IN  /\ cmp[1].eq = (both /\ Constrained_eq(x.v, y.v))
            /\ (cmp[1].ord # None) = (both /\ Constrained_partial_cmp(x.v, y.v) # None)
            /\ both => cmp[1].ord = Constrained_partial_cmp(x.v, y.v)
            /\ ~both => (cmp[1].eq = FALSE /\ cmp[1].ord = None)

C10_Witness ==
    /\ Returned("compare")
    /\ is_undefined(x)
    /\ arg = ExpressionOperand(x)
    /\ cmp = Output([eq |-> FALSE, ord |-> None])

\* The operations that hand a closure to map, and those that hand one to
\* and_then, with the closure of the last operation.
MapSteps == MappedFns \cup {"neg"}
AndThenSteps == ChainedFns \cup {"powi"}
Closure == IF op = "powi" THEN FnPowi(arg.v) ELSE Fn(op)

\* C11: map and and_then short-circuit.  On Undefined(e) both return
\* Undefined(e) unchanged and make no call of the closure; on Defined(v) the
\* closure is called once, on v, and map returns its output wrapped in Defined
\* while and_then returns its output as it is, Defined or Undefined.
C11_ShortCircuit ==
    (pc = "returned" /\ op \in MapSteps \cup AndThenSteps) =>
        /\ is_undefined(prev) => (x = prev /\ calls = NoCalls)
        /\ is_defined(prev) => calls = <<Invoked(op, prev.v)>>
        /\ (is_defined(prev) /\ op \in MapSteps) =>
               x = Defined(CallSelf(Closure, prev.v))
        /\ (is_defined(prev) /\ op \in AndThenSteps) =>
               x = CallCodomain(Closure, prev.v)

\* and_then on a Defined value whose closure returns Undefined.
C11_Witness ==
    /\ Returned("sqrt")
    /\ is_defined(prev)
    /\ calls = <<Invoked("sqrt", prev.v)>>
    /\ is_undefined(x)
    /\ x = CallCodomain(Fn("sqrt"), prev.v)

\* C12: unwrap of Defined(v) returns v and unwrap of Undefined panics and
\* returns nothing; exactly one of defined() and undefined() returns a value,
\* which is the content of the expression; is_defined() and is_undefined()
\* return without a panic and each is the negation of the other.
C12_Extraction ==
    Returned("extract") =>
        LET o == obs[1]
        IN  /\ x.tag = "Defined" =>
                   (o.unwrap = Returns(x.v) /\ o.defined = Some(x.v))
            /\ x.tag = "Undefined" =>
                   (o.unwrap.panics /\ o.unwrap.value = None /\ o.undefined = Some(x.v))
            /\ (o.defined = None) # (o.undefined = None)
            /\ ~o.is_defined.panics /\ ~o.is_undefined.panics
            /\ o.is_defined.value[1] = ~o.is_undefined.value[1]
            /\ o.is_defined.value[1] = (x.tag = "Defined")

\* unwrap of an Undefined expression.
C12_Witness ==
    /\ Returned("extract")
    /\ x.tag = "Undefined"
    /\ obs[1].unwrap = Panics
    /\ obs[1].defined = None
    /\ obs[1].is_undefined = Returns(TRUE)

\* C13: a primitive p that satisfies the constraint is lifted to Defined, and
\* the conversion back (try_from for the primitive, or unwrap and reading the
\* inner value) gives exactly p; a primitive that violates the constraint is
\* lifted to Undefined, and the conversion back gives the error of the
\* construction of p.
C13_RoundTrip ==
    (Returned("try_from") /\ side = "back") =>
        LET p == arg.v
        IN  /\ Satisfies(p) =>
                   /\ x.tag = "Defined"
                   /\ obs[1].primitive = Ok(p)
                   /\ unwrap(x) = Returns(p)
                   /\ Constrained_into_inner(unwrap(x).value[1]) = p
            /\ ~Satisfies(p) =>
                   /\ x.tag = "Undefined"
                   /\ obs[1].primitive = Err(ConstraintError(p))
                   /\ obs[1].constrained = Err(ConstraintError(p))

\* An infinity that violates the constraint comes back as its error.
C13_Witness ==
    /\ Returned("try_from")
    /\ side = "back"
    /\ arg = PrimitiveOperand(PosInf)
    /\ ~Satisfies(PosInf)
    /\ obs[1].primitive = Err(ConstraintError(PosInf))

\* C14: in `x o p` with x = Undefined(e) and p a raw primitive, the result is
\* Undefined(e) and p is not validated, whether or not p satisfies the
\* constraint; in `p o x` with p a raw primitive that violates the constraint
\* and x = Undefined(e), p is validated first and the result is Undefined with
\* the construction error of p, not e.
C14_ValidationOrder ==
    (pc = "returned" /\ op \in ArithmeticOps /\ arg.kind = "primitive"
        /\ prev.tag = "Undefined") =>
        /\ side = "left" => (x = prev /\ calls = NoCalls)
        /\ (side = "right" /\ ~Satisfies(arg.v)) =>
               /\ calls = <<Invoked("new", arg.v)>>
               /\ x = Undefined(ConstraintError(arg.v))

\* p o x where p violates the constraint and x holds another error: the error
\* of p is the one returned.
C14_Witness ==
    /\ pc = "returned"
    /\ op \in ArithmeticOps
    /\ side = "right"
    /\ arg.kind = "primitive"
    /\ ~Satisfies(arg.v)
    /\ prev.tag = "Undefined"
    /\ prev.v # ConstraintError(arg.v)
    /\ x = Undefined(ConstraintError(arg.v))
    /\ calls = <<Invoked("new", arg.v)>>

\* C15: for an Undefined expression is_zero, is_one, is_infinite and is_finite
\* return false and sign returns Sign::Zero; for a Defined expression each of
\* them returns what the validated value inside returns.
C15_Classification ==
    /\ Returned("classify") =>
           /\ x.tag = "Undefined" =>
                  obs[1] = [is_zero |-> FALSE, is_one |-> FALSE, sign |-> "Zero"]
           /\ x.tag = "Defined" =>
                  obs[1] = [is_zero |-> Constrained_is_zero(x.v),
                            is_one |-> Constrained_is_one(x.v),
                            sign |-> Constrained_sign(x.v)]
    /\ Returned("classify_infinity") =>
           /\ x.tag = "Undefined" =>
                  obs[1] = [is_infinite |-> FALSE, is_finite |-> FALSE]
           /\ x.tag = "Defined" =>
                  obs[1] = [is_infinite |-> Constrained_is_infinite(x.v),
                            is_finite |-> Constrained_is_finite(x.v)]

\* An Undefined expression is neither infinite nor finite.
C15_Witness ==
    /\ Returned("classify_infinity")
    /\ x.tag = "Undefined"
    /\ obs = Output([is_infinite |-> FALSE, is_finite |-> FALSE])

====
